---- MODULE Spec2Model ----
(***************************************************************************)
(* Model of the VaRA-Tool-Suite experiment pipelines:                      *)
(*   - VaRATaintPropagation / VaraMTFACheck (experiments/taint_propagation)*)
(*   - CommitAnnotationReport (experiments/CommitAnnotationReport)         *)
(* The state is the file system (bitcode cache, result folder) plus, per   *)
(* pipeline run, the assembled step list and the position of the run.      *)
(* File and folder names are sequences of tokens, built as the code builds *)
(* them with str.format and +; the operating system resolves a name by     *)
(* collapsing repeated separators (Normalize).                             *)
(***************************************************************************)
EXTENDS Integers, Sequences, FiniteSets, TLC

VARIABLES
    experiment,  \* the experiment of the invocations: "TP" or "CAR"
    target,      \* the project (name and version) the invocations run on
    fs,          \* the files on disk: a set of [path, data]
    dirs,        \* the result folders made by mkdir -p
    run,         \* run slot -> the project instance of the run, or NoRun
    steps,       \* run slot -> the list returned by actions_for_project
    ip,          \* run slot -> index of the step the runner is at
    outcomes,    \* run slot -> the recorded outcome of each executed step
    phase,       \* run slot -> position inside VaraMTFACheck.analyze
    bi,          \* run slot -> index into BIN_NAMES of the analyze loop
    procA,       \* run slot -> state of the stage timeout[8h, opt ...]
    procB,       \* run slot -> state of the stage FileCheck
    raised,      \* run slot -> retcode of the pending ProcessExecutionError
    elapsed,     \* run slot -> wall-clock ticks since the chain was started
    args,        \* vara-buildsetup: the namespace returned by parse_args
    pc,          \* vara-buildsetup: the position in main
    performed,   \* vara-buildsetup: the calls main has made, in order
    build_type   \* vara-buildsetup: the BuildType returned by the parser

vars == <<experiment, target, fs, dirs, run, steps, ip, outcomes, phase, bi,
          procA, procB, raised, elapsed, args, pc, performed, build_type>>

\* The variables of the vara-buildsetup driver
driver == <<args, pc, performed, build_type>>

\* The variables of the experiment pipelines
pipeline == <<experiment, target, fs, dirs, run, steps, ip, outcomes, phase, bi,
              procA, procB, raised, elapsed>>

----------------------------------------------------------------------------
(* Bounds of the model *)

MaxBins == 2        \* length of BIN_NAMES of the multi-binary project
MaxTime == 2        \* the chain clock stops counting here
MaxShort == 2       \* length of the longest string of arbitrary characters

(* Program constants *)

TimeoutDuration == 1    \* timeout_duration = '8h', in clock ticks
RetTimeout == 124       \* exit status of timeout(1) when the time is up

(* The runs and the inputs they are launched with *)

Runs == {"runA", "runB"}
NoRun == [name |-> "none", version |-> "none", run_uuid |-> "none"]

Experiments == {"TP", "CAR"}
ProjectNames == {"phasar", "taint"}
Versions == {"v1", "v2"}
\* The version the experiment is run on (the other versions are alike).
TargetVersions == {"v1"}
Uuids == {"u1", "u2"}

Running == -1
Off == -2

----------------------------------------------------------------------------
(* Configuration and projects *)

\* CFG["vara"]["result"]: folder of the cached bitcode files
CFG_vara_result == "annotatedResults"
\* CFG["vara"]["outfile"]: folder of the analysis results
CFG_vara_outfile == "outfile"

\* Project.BIN_NAMES: phasar has one binary; the taint test project has
\* MaxBins of them.
BIN_NAMES(project_name) ==
    IF project_name = "phasar" THEN <<"phasar">>
    ELSE [i \in 1..MaxBins |-> "b" \o ToString(i)]

----------------------------------------------------------------------------
(* Paths *)

RECURSIVE Normalize(_)
\* What the file system does with a name: repeated separators are one.
Normalize(p) ==
    IF Len(p) < 2 THEN p
    ELSE IF p[1] = "/" /\ p[2] = "/" THEN Normalize(Tail(p))
    ELSE <<p[1]>> \o Normalize(Tail(p))

\* Extract.BC_CACHE_FOLDER_TEMPLATE = "{cache_dir}/{project_name}/"
BC_CACHE_FOLDER_TEMPLATE(cache_dir, project_name) ==
    <<cache_dir, "/", project_name, "/">>

\* Extract.BC_FILE_TEMPLATE = "{project_name}-{binary_name}-{project_version}.bc"
BC_FILE_TEMPLATE(project_name, binary_name, project_version) ==
    <<project_name, "-", binary_name, "-", project_version, ".bc">>

\* FileStatusExtension
FSE_Success == "success"
FSE_Failed == "failed"
FSE_CompileError == "cerror"

\* TPR.FILE_TYPE
TPR_FILE_TYPE == <<".", "txt">>

\* TPR.get_file_name:
\* {binary_name}-{project_version}-{run_id}.{kind-suffix}[.{ext}]
get_file_name(project_name, binary_name, project_version, project_uuid, extension_type, file_ext) ==
    <<binary_name, "-", project_version, "-", project_uuid, ".",
      extension_type>> \o file_ext

\* VaraMTFACheck.RESULT_FOLDER_TEMPLATE = "{result_dir}/{project_dir}"
RESULT_FOLDER_TEMPLATE(result_dir, project_dir) ==
    <<result_dir, "/", project_dir>>

\* "{res_folder}/{res_file}".format(...)
InFolder(folder, file) == folder \o <<"/">> \o file

----------------------------------------------------------------------------
(* Files *)

Exists(disk, p) == \E f \in disk : f.path = Normalize(p)

WriteFile(disk, p, d) ==
    {f \in disk : f.path # Normalize(p)} \cup {[path |-> Normalize(p), data |-> d]}

RemoveFile(disk, p) == {f \in disk : f.path # Normalize(p)}

DataOf(disk, p) == (CHOOSE f \in disk : f.path = Normalize(p)).data

----------------------------------------------------------------------------
(* VaRATaintPropagation: names computed from the project *)

\* actions_for_project: the name whose existence is tested for one binary
cache_check_path(project, binary_name) ==
    BC_CACHE_FOLDER_TEMPLATE(CFG_vara_result, project.name)
        \o BC_FILE_TEMPLATE(project.name, binary_name, project.version)

\* analyze: bc_cache_dir
bc_cache_dir(project) == BC_CACHE_FOLDER_TEMPLATE(CFG_vara_result, project.name)

\* analyze: bc_target_file
bc_target_file(project, binary_name) ==
    BC_FILE_TEMPLATE(project.name, binary_name, project.version)

\* The input of opt with the binary's name in the place of the project's.
bc_input_path_swapped(project, binary_name) ==
    InFolder(BC_CACHE_FOLDER_TEMPLATE(CFG_vara_result, binary_name),
             bc_target_file(project, binary_name))

\* analyze: the input given to opt, "{cache_folder}/{bc_file}"
bc_input_path(project, binary_name) ==
    InFolder(bc_cache_dir(project), bc_target_file(project, binary_name))

\* analyze: vara_result_folder
vara_result_folder(project) == RESULT_FOLDER_TEMPLATE(CFG_vara_outfile, project.name)

\* analyze: result_file, the name of the success file
result_file(project, binary_name) ==
    get_file_name(project.name, binary_name, project.version,
                  project.run_uuid, FSE_Success, <<>>)

\* The name of the report with the version in the place of the run id.
error_file_without_uuid(project, binary_name) ==
    get_file_name(project.name, binary_name, project.version,
                  project.version, FSE_Failed, TPR_FILE_TYPE)

\* analyze: error_file, the name of the report of a failed run
error_file(project, binary_name) ==
    get_file_name(project.name, binary_name, project.version,
                  project.run_uuid, FSE_Failed, TPR_FILE_TYPE)

\* analyze: the target of the redirection of the chain
result_path(project, binary_name) ==
    InFolder(vara_result_folder(project), result_file(project, binary_name))

\* PEErrorHandler: "{res_folder}/{res_file}" of the error file
error_path(project, binary_name) ==
    InFolder(vara_result_folder(project), error_file(project, binary_name))

\* The report of a failed compilation under the name of the project.
compile_error_path_of_project(project) ==
    InFolder(RESULT_FOLDER_TEMPLATE(CFG_vara_outfile, project.name),
             get_file_name(project.name, project.name, project.version,
                           project.run_uuid, FSE_CompileError, <<>>))

\* actions_for_project: the name of the report of a failed compilation
compile_error_path(project) ==
    InFolder(RESULT_FOLDER_TEMPLATE(CFG_vara_outfile, project.name),
             get_file_name(project.name, "all", project.version,
                           project.run_uuid, FSE_CompileError, <<>>))

RECURSIVE CacheLoopNoBreak(_, _, _, _)
\* The loop over BIN_NAMES without its break.
CacheLoopNoBreak(disk, project, i, all_cache_files_present) ==
    IF i > Len(BIN_NAMES(project.name)) THEN <<>>
    ELSE LET present == all_cache_files_present
                        /\ Exists(disk, cache_check_path(project, BIN_NAMES(project.name)[i]))
         IN (IF ~present THEN <<"Compile", "Extract">> ELSE <<>>)
                \o CacheLoopNoBreak(disk, project, i + 1, present)

RECURSIVE CacheLoopLastOnly(_, _, _, _)
\* A loop over BIN_NAMES that decides on the last binary alone.
CacheLoopLastOnly(disk, project, i, all_cache_files_present) ==
    IF i > Len(BIN_NAMES(project.name)) THEN <<>>
    ELSE IF i < Len(BIN_NAMES(project.name))
    THEN CacheLoopLastOnly(disk, project, i + 1, all_cache_files_present)
    ELSE IF ~Exists(disk, cache_check_path(project, BIN_NAMES(project.name)[i]))
    THEN <<"Compile", "Extract">>
    ELSE <<>>

RECURSIVE CacheLoop(_, _, _, _)
\* actions_for_project: the loop over BIN_NAMES with its break
CacheLoop(disk, project, i, all_cache_files_present) ==
    IF i > Len(BIN_NAMES(project.name)) THEN <<>>
    ELSE LET present == all_cache_files_present
                        /\ Exists(disk, cache_check_path(project, BIN_NAMES(project.name)[i]))
         IN IF ~present THEN <<"Compile", "Extract">>
            ELSE CacheLoop(disk, project, i + 1, present)

\* The pipeline whose cleanup step is appended only after a build.
TP_actions_clean_after_build(disk, project) ==
    CacheLoop(disk, project, 1, TRUE) \o <<"VaraMTFACheck">>
        \o (IF CacheLoop(disk, project, 1, TRUE) # <<>> THEN <<"Clean">> ELSE <<>>)

\* VaRATaintPropagation.actions_for_project
TP_actions_for_project(disk, project) ==
    CacheLoop(disk, project, 1, TRUE) \o <<"VaraMTFACheck", "Clean">>

----------------------------------------------------------------------------
(* CommitAnnotationReport: names computed from the project *)

\* local.path(str(CFG["vara"]["result"].value)) / project.name + ".bc"
car_bc_path(project) == <<CFG_vara_result, "/", project.name, ".bc">>

\* evaluate_analysis: the value of -yaml-out-file
car_outfile(project) ==
    <<CFG_vara_outfile>> \o <<"/", project.name, "-", project.run_uuid, ".yaml">>

\* The pipeline without its Prepare step.
CAR_actions_without_prepare(disk, project) ==
    (IF ~Exists(disk, car_bc_path(project))
     THEN <<"Compile", "Extract">> ELSE <<>>)
        \o <<"Analyse", "Clean">>

\* CommitAnnotationReport.actions_for_project
CAR_actions_for_project(disk, project) ==
    (IF ~Exists(disk, car_bc_path(project))
     THEN <<"Prepare", "Compile", "Extract">> ELSE <<>>)
        \o <<"Analyse", "Clean">>

actions_for_project(exp, disk, project) ==
    IF exp = "TP" THEN TP_actions_for_project(disk, project)
    ELSE CAR_actions_for_project(disk, project)

----------------------------------------------------------------------------
(* vara-buildsetup: strings and build types *)

\* A string is the sequence of its characters.  The letters the driver's
\* strings are made of, each with its upper-case form.
CasePairs ==
    {<<"a", "A">>, <<"b", "B">>, <<"d", "D">>, <<"e", "E">>, <<"g", "G">>,
     <<"i", "I">>, <<"m", "M">>, <<"n", "N">>, <<"o", "O">>, <<"p", "P">>,
     <<"r", "R">>, <<"s", "S">>, <<"t", "T">>, <<"v", "V">>, <<"x", "X">>}

\* Characters with no case
Uncased == {"-", " "}

Chars == {cp[1] : cp \in CasePairs} \cup {cp[2] : cp \in CasePairs} \cup Uncased

\* str.upper() of one character
upper_char(c) ==
    IF \E cp \in CasePairs : cp[1] = c
    THEN (CHOOSE cp \in CasePairs : cp[1] = c)[2]
    ELSE c

\* A str.upper() that leaves the string as it is.
upper_unchanged(str) == str

\* str.upper()
upper(str) == IF str = <<>> THEN <<>> ELSE [i \in 1..Len(str) |-> upper_char(str[i])]

\* The values of --buildtype
dev == <<"d", "e", "v">>
opt == <<"o", "p", "t">>
pgo == <<"p", "g", "o">>
dbg == <<"d", "b", "g">>
dev_san == <<"d", "e", "v", "-", "s", "a", "n">>

\* BuildType of varats.vara_manager
BuildType == {"DBG", "DEV", "OPT", "PGO", "DEV_SAN"}

\* parse_string_to_build_type
parse_string_to_build_type(build_type_str) ==
    LET upper_build_type == upper(build_type_str)
    IN  IF upper_build_type = <<"D", "B", "G">> THEN "DBG"
        ELSE IF upper_build_type = <<"D", "E", "V">> THEN "DEV"
        ELSE IF upper_build_type = <<"O", "P", "T">> THEN "OPT"
        ELSE IF upper_build_type = <<"P", "G", "O">> THEN "PGO"
        ELSE IF upper_build_type = <<"D", "E", "V", "-", "S", "A", "N">> THEN "DEV_SAN"
        ELSE "DEV"

----------------------------------------------------------------------------
(* vara-buildsetup: the command line *)

\* The value of an option given without its argument (nargs="?", no const)
None == <<"None">>

\* choices of --buildtype
BuildTypeChoices == {dev, opt, pgo, dbg, dev_san}

\* The namespaces parse_args returns: the four flags, and --buildtype, whose
\* value is its default, one of its choices, or None.
Namespaces ==
    [config : BOOLEAN, init : BOOLEAN, update : BOOLEAN, build : BOOLEAN,
     buildtype : BuildTypeChoices \cup {None}]

NoArgs == [config |-> FALSE, init |-> FALSE, update |-> FALSE, build |-> FALSE,
           buildtype |-> dev]

\* The strings of the letters of str, each in either case
Casings(str) ==
    {[i \in 1..Len(str) |-> IF i \in S THEN upper_char(str[i]) ELSE str[i]] :
         S \in SUBSET (1..Len(str))}

AllCasings == UNION {Casings(str) : str \in BuildTypeChoices}

\* Strings that are one character away from str
NearMisses(str) ==
    {Append(str, c) : c \in {"x", " ", "-"}}
        \cup {SubSeq(str, 1, Len(str) - 1), Tail(str)}
        \cup {[str EXCEPT ![i] = "x"] : i \in 1..Len(str)}

\* The strings of at most n characters
ShortStrings(n) == UNION {[1..k -> Chars] : k \in 0..n}

\* The strings parse_string_to_build_type is called with
BuildTypeStrings ==
    AllCasings
        \cup UNION {NearMisses(str) : str \in AllCasings}
        \cup ShortStrings(MaxShort)
        \cup {<<"r", "a", "n", "d", "o", "m", " ", "s", "t", "r", "i", "n", "g">>}

\* The driver is not run.
DriverOff ==
    /\ args = NoArgs
    /\ pc = "off"
    /\ performed = <<>>
    /\ build_type = "none"

----------------------------------------------------------------------------
(* The state *)

\* The project instances of one project at one version: each run has its
\* own run_uuid.
ProjectInstances(project_name, project_version) ==
    [name : {project_name}, version : {project_version}, run_uuid : Uuids]

\* The bitcode files a run of the experiment may find in the cache folder.
CacheFiles(exp, project_name, project_version) ==
    IF exp = "TP"
    THEN UNION {{Normalize(cache_check_path(p, BIN_NAMES(p.name)[i])) :
                    i \in 1..Len(BIN_NAMES(p.name))} :
                p \in ProjectInstances(project_name, project_version)}
    ELSE {Normalize(car_bc_path(p)) :
              p \in ProjectInstances(project_name, project_version)}

\* One experiment is run on one project at one version.  The cache folder
\* holds any of the bitcode files of that version, and all or none of the
\* files of each other version, left by earlier runs.  The data of a bitcode
\* file is the version of the sources it was made from.
Init ==
    /\ experiment \in Experiments
    /\ target \in [name : ProjectNames, version : TargetVersions]
    /\ \E present \in SUBSET CacheFiles(experiment, target.name, target.version),
          others \in SUBSET (Versions \ {target.version}) :
           fs = {[path |-> p, data |-> target.version] : p \in present}
                \cup {f \in [path : UNION {CacheFiles(experiment, target.name, v) :
                                               v \in others} \ present,
                              data : others] :
                          f.path \in CacheFiles(experiment, target.name, f.data)}
    /\ dirs = {}
    /\ run = [r \in Runs |-> NoRun]
    /\ steps = [r \in Runs |-> <<>>]
    /\ ip = [r \in Runs |-> 1]
    /\ outcomes = [r \in Runs |-> <<>>]
    /\ phase = [r \in Runs |-> "idle"]
    /\ bi = [r \in Runs |-> 1]
    /\ procA = [r \in Runs |-> Off]
    /\ procB = [r \in Runs |-> Off]
    /\ raised = [r \in Runs |-> 0]
    /\ elapsed = [r \in Runs |-> 0]
    /\ DriverOff

Active(r) == run[r] # NoRun /\ ip[r] <= Len(steps[r])
Done(r) == run[r] # NoRun /\ ip[r] > Len(steps[r])
AtStep(r, kind) == Active(r) /\ steps[r][ip[r]] = kind
Bins(r) == BIN_NAMES(run[r].name)

\* The runner: the outcome of the step is recorded and the next step is taken.
Record(r, outcome) ==
    /\ outcomes' = [outcomes EXCEPT ![r] = Append(@, outcome)]
    /\ ip' = [ip EXCEPT ![r] = @ + 1]

AllOk(r) == \A k \in 1..Len(outcomes[r]) : outcomes[r][k] = "ok"

\* A new pipeline run: the project is instantiated and the experiment
\* assembles its steps from what is on disk now.
Launch(r) ==
    /\ run[r] = NoRun
    /\ \E project \in ProjectInstances(target.name, target.version) :
           /\ run' = [run EXCEPT ![r] = project]
           /\ steps' = [steps EXCEPT ![r] = actions_for_project(experiment, fs, project)]
    /\ ip' = [ip EXCEPT ![r] = 1]
    /\ outcomes' = [outcomes EXCEPT ![r] = <<>>]
    /\ UNCHANGED <<driver, experiment, target, fs, dirs, phase, bi, procA, procB, raised, elapsed>>

----------------------------------------------------------------------------
(* Steps of the taint propagation pipeline *)

\* actions.Compile with project.compile wrapped by FunctionPEErrorWrapper:
\* a failed compilation writes the CompileError report and fails the step.
TPCompile(r) ==
    /\ experiment = "TP"
    /\ AtStep(r, "Compile")
    /\ \E ok \in BOOLEAN :
           IF ok THEN Record(r, "ok") /\ fs' = fs
           ELSE /\ fs' = WriteFile(fs, compile_error_path(run[r]), "exit")
                /\ Record(r, "fail")
    /\ UNCHANGED <<driver, experiment, target, dirs, run, steps, phase, bi, procA, procB,
                   raised, elapsed>>

\* Extract: after a successful build the bitcode of every binary is put at
\* {cache_root}/{project_name}/{project_name}-{binary_name}-{version}.bc
ExtractAll(disk, project) ==
    {f \in disk : \A i \in 1..Len(BIN_NAMES(project.name)) :
         f.path # Normalize(cache_check_path(project, BIN_NAMES(project.name)[i]))}
    \cup {[path |-> Normalize(cache_check_path(project, BIN_NAMES(project.name)[i])),
           data |-> project.version] : i \in 1..Len(BIN_NAMES(project.name))}

TPExtract(r) ==
    /\ experiment = "TP"
    /\ AtStep(r, "Extract")
    /\ \E ok \in BOOLEAN :
           IF ok /\ AllOk(r)
           THEN fs' = ExtractAll(fs, run[r]) /\ Record(r, "ok")
           ELSE fs' = fs /\ Record(r, "fail")
    /\ UNCHANGED <<driver, experiment, target, dirs, run, steps, phase, bi, procA, procB,
                   raised, elapsed>>

\* analyze, up to the loop: the result folder is made.
AnalyzeBegin(r) ==
    /\ AtStep(r, "VaraMTFACheck")
    /\ phase[r] = "idle"
    /\ dirs' = dirs \cup {vara_result_folder(run[r])}
    /\ bi' = [bi EXCEPT ![r] = 1]
    /\ phase' = [phase EXCEPT ![r] = "loop"]
    /\ UNCHANGED <<driver, experiment, target, fs, run, steps, ip, outcomes, procA, procB,
                   raised, elapsed>>

\* cmd > "{res_folder}/{res_file}": the target is opened for writing, which
\* makes it, empty.
redirect_stdout(disk, p) == WriteFile(disk, p, "")

\* A removal that removes nothing.
rm_nothing(disk, p) == disk

\* rm("{res_folder}/{res_file}")
rm(disk, p) == RemoveFile(disk, p)

\* cmd_chain(): timeout[8h, opt ...] | FileCheck > result file.  The
\* redirection opens its target for writing, then both stages are started.
ChainStart(r) ==
    /\ AtStep(r, "VaraMTFACheck")
    /\ phase[r] = "loop"
    /\ bi[r] <= Len(Bins(r))
    /\ fs' = redirect_stdout(fs, result_path(run[r], Bins(r)[bi[r]]))
    /\ procA' = [procA EXCEPT ![r] = Running]
    /\ procB' = [procB EXCEPT ![r] = Running]
    /\ elapsed' = [elapsed EXCEPT ![r] = 0]
    /\ phase' = [phase EXCEPT ![r] = "running"]
    /\ UNCHANGED <<driver, experiment, target, dirs, run, steps, ip, outcomes, bi, raised>>

\* Time passes while the chain runs; timeout(1) lets opt run no longer
\* than the timeout duration.
Tick(r) ==
    /\ phase[r] = "running"
    /\ procA[r] = Running \/ procB[r] = Running
    /\ elapsed[r] < MaxTime
    /\ ~(procA[r] = Running /\ elapsed[r] >= TimeoutDuration)
    /\ elapsed' = [elapsed EXCEPT ![r] = @ + 1]
    /\ UNCHANGED <<driver, experiment, target, fs, dirs, run, steps, ip, outcomes, phase, bi,
                   procA, procB, raised>>

\* opt ends by itself: with 0 only if it could read its input.
OptExit(r) ==
    /\ phase[r] = "running"
    /\ procA[r] = Running
    /\ elapsed[r] < TimeoutDuration
    /\ \E code \in {0, 1} :
           /\ code = 0 => Exists(fs, bc_input_path(run[r], Bins(r)[bi[r]]))
           /\ procA' = [procA EXCEPT ![r] = code]
    /\ UNCHANGED <<driver, experiment, target, fs, dirs, run, steps, ip, outcomes, phase, bi,
                   procB, raised, elapsed>>

\* The time is up: timeout(1) ends opt and exits with 124.
OptTimeout(r) ==
    /\ phase[r] = "running"
    /\ procA[r] = Running
    /\ elapsed[r] >= TimeoutDuration
    /\ procA' = [procA EXCEPT ![r] = RetTimeout]
    /\ UNCHANGED <<driver, experiment, target, fs, dirs, run, steps, ip, outcomes, phase, bi,
                   procB, raised, elapsed>>

\* FileCheck has read the whole output of the first stage and ends.
FileCheckExit(r) ==
    /\ phase[r] = "running"
    /\ procB[r] = Running
    /\ procA[r] >= 0
    /\ \E code \in {0, 1} : procB' = [procB EXCEPT ![r] = code]
    /\ UNCHANGED <<driver, experiment, target, fs, dirs, run, steps, ip, outcomes, phase, bi,
                   procA, raised, elapsed>>

\* The retcode the pipeline is verified with: the first stage's, if it
\* is not 0, else the last stage's.
ChainRetcode(a, b) == IF a # 0 THEN a ELSE b

\* exec_func_with_pe_error_handler: the chain has ended.
ChainEnd(r) ==
    /\ phase[r] = "running"
    /\ procA[r] >= 0 /\ procB[r] >= 0
    /\ IF ChainRetcode(procA[r], procB[r]) = 0
       THEN /\ phase' = [phase EXCEPT ![r] = "loop"]
            /\ bi' = [bi EXCEPT ![r] = @ + 1]
            /\ raised' = raised
            /\ elapsed' = [elapsed EXCEPT ![r] = 0]
       ELSE /\ phase' = [phase EXCEPT ![r] = "handler"]
            /\ raised' = [raised EXCEPT ![r] = ChainRetcode(procA[r], procB[r])]
            /\ bi' = bi
            /\ elapsed' = elapsed
    /\ procA' = [procA EXCEPT ![r] = Off]
    /\ procB' = [procB EXCEPT ![r] = Off]
    /\ UNCHANGED <<driver, experiment, target, fs, dirs, run, steps, ip, outcomes>>

\* The text of the report of a failed chain: a chain ended by timeout(1)
\* is reported with the timeout duration.
ReportText(retcode) == IF retcode = RetTimeout THEN "timeout" ELSE "exit"

\* PEErrorHandler.__call__: the report is written, the error goes on.
Handler(r) ==
    /\ phase[r] = "handler"
    /\ fs' = WriteFile(fs, error_path(run[r], Bins(r)[bi[r]]), ReportText(raised[r]))
    /\ phase' = [phase EXCEPT ![r] = "except"]
    /\ UNCHANGED <<driver, experiment, target, dirs, run, steps, ip, outcomes, bi, procA, procB,
                   raised, elapsed>>

\* An except clause that removes the result file and raises the error again.
RemoveSuccess_reraise(r) ==
    /\ phase[r] = "except"
    /\ raised' = [raised EXCEPT ![r] = 0]
    /\ elapsed' = [elapsed EXCEPT ![r] = 0]
    /\ fs' = rm(fs, result_path(run[r], Bins(r)[bi[r]]))
    /\ phase' = [phase EXCEPT ![r] = "idle"]
    /\ bi' = bi
    /\ Record(r, "fail")
    /\ UNCHANGED <<driver, experiment, target, dirs, run, steps, procA, procB>>

\* except ProcessExecutionError: rm(result file).  rm of a file that is
\* not there fails, and that error leaves analyze.
RemoveSuccess(r) ==
    /\ phase[r] = "except"
    /\ raised' = [raised EXCEPT ![r] = 0]
    /\ elapsed' = [elapsed EXCEPT ![r] = 0]
    /\ IF Exists(fs, result_path(run[r], Bins(r)[bi[r]]))
       THEN /\ fs' = rm(fs, result_path(run[r], Bins(r)[bi[r]]))
            /\ phase' = [phase EXCEPT ![r] = "loop"]
            /\ bi' = [bi EXCEPT ![r] = @ + 1]
            /\ UNCHANGED <<ip, outcomes>>
       ELSE /\ fs' = fs
            /\ phase' = [phase EXCEPT ![r] = "idle"]
            /\ bi' = bi
            /\ Record(r, "fail")
    /\ UNCHANGED <<driver, experiment, target, dirs, run, steps, procA, procB>>

\* analyze returns after the last binary.
AnalyzeEnd(r) ==
    /\ AtStep(r, "VaraMTFACheck")
    /\ phase[r] = "loop"
    /\ bi[r] > Len(Bins(r))
    /\ phase' = [phase EXCEPT ![r] = "idle"]
    /\ Record(r, "ok")
    /\ UNCHANGED <<driver, experiment, target, fs, dirs, run, steps, bi, procA, procB, raised,
                   elapsed>>

\* actions.Clean: the build folder of the run is removed.
Clean(r) ==
    /\ AtStep(r, "Clean")
    /\ Record(r, "ok")
    /\ UNCHANGED <<driver, experiment, target, fs, dirs, run, steps, phase, bi, procA, procB,
                   raised, elapsed>>

----------------------------------------------------------------------------
(* Steps of the commit annotation pipeline *)

\* Prepare(self, evaluate_preparation)
CARPrepare(r) ==
    /\ AtStep(r, "Prepare")
    /\ \E ok \in BOOLEAN : Record(r, IF ok THEN "ok" ELSE "fail")
    /\ UNCHANGED <<driver, experiment, target, fs, dirs, run, steps, phase, bi, procA, procB,
                   raised, elapsed>>

\* actions.Compile(project)
CARCompile(r) ==
    /\ experiment = "CAR"
    /\ AtStep(r, "Compile")
    /\ \E ok \in BOOLEAN : Record(r, IF ok /\ AllOk(r) THEN "ok" ELSE "fail")
    /\ UNCHANGED <<driver, experiment, target, fs, dirs, run, steps, phase, bi, procA, procB,
                   raised, elapsed>>

\* The extraction without its cp: the bitcode stays in the build folder.
CARExtract_without_cp(r) ==
    /\ experiment = "CAR"
    /\ AtStep(r, "Extract")
    /\ \E ok \in BOOLEAN :
           IF ok /\ AllOk(r)
           THEN /\ fs' = WriteFile(fs, <<"builddir", "/", "out", "/", run[r].name, ".bc">>,
                                   run[r].version)
                /\ Record(r, "ok")
           ELSE fs' = fs /\ Record(r, "fail")
    /\ UNCHANGED <<driver, experiment, target, dirs, run, steps, phase, bi, procA, procB,
                   raised, elapsed>>

\* Extract(self, evaluate_extraction): extract_bc, then cp to the cache
CARExtract(r) ==
    /\ experiment = "CAR"
    /\ AtStep(r, "Extract")
    /\ \E ok \in BOOLEAN :
           IF ok /\ AllOk(r)
           THEN fs' = WriteFile(fs, car_bc_path(run[r]), run[r].version) /\ Record(r, "ok")
           ELSE fs' = fs /\ Record(r, "fail")
    /\ UNCHANGED <<driver, experiment, target, dirs, run, steps, phase, bi, procA, procB,
                   raised, elapsed>>

\* Analyse(self, evaluate_analysis): opt -vara-CFR writes the yaml file
CARAnalyse(r) ==
    /\ AtStep(r, "Analyse")
    /\ \E ok \in BOOLEAN :
           IF ok /\ Exists(fs, car_bc_path(run[r]))
           THEN fs' = WriteFile(fs, car_outfile(run[r]), "yaml") /\ Record(r, "ok")
           ELSE fs' = fs /\ Record(r, "fail")
    /\ UNCHANGED <<driver, experiment, target, dirs, run, steps, phase, bi, procA, procB,
                   raised, elapsed>>

----------------------------------------------------------------------------

\* The steps of a pipeline run that build what the cache lacks.
BuildStep(r) ==
    \/ TPCompile(r)
    \/ TPExtract(r)
    \/ CARPrepare(r)
    \/ CARCompile(r)
    \/ CARExtract(r)

\* The passing of time while a chain runs.
TimeStep(r) ==
    \/ Tick(r)
    \/ OptTimeout(r)

\* The steps of a pipeline run from the analysis on.
ReadyStep(r) ==
    \/ AnalyzeBegin(r)
    \/ ChainStart(r)
    \/ OptExit(r)
    \/ FileCheckExit(r)
    \/ ChainEnd(r)
    \/ Handler(r)
    \/ RemoveSuccess(r)
    \/ AnalyzeEnd(r)
    \/ Clean(r)
    \/ CARAnalyse(r)

\* The steps of a pipeline run.
RunStep(r) == BuildStep(r) \/ ReadyStep(r) \/ TimeStep(r)

\* The second pipeline run is launched when the first has ended.
LaunchNext == Done("runA") /\ Launch("runB")

\* Two pipeline runs, one after the other.
Next ==
    \/ Launch("runA")
    \/ LaunchNext
    \/ \E r \in Runs : RunStep(r)

Spec == Init /\ [][Next]_vars

\* The cache holds the bitcode of every binary of the project, and no more.
ConcInit ==
    /\ Init
    /\ {f.path : f \in fs} = CacheFiles(experiment, target.name, target.version)

\* Two invocations at the same time, each with a pipeline run of the same
\* project and version, whose chains end before the time is up.
ConcNext == \E r \in Runs : Launch(r) \/ ReadyStep(r)

ConcSpec == ConcInit /\ [][ConcNext]_vars

\* One pipeline run.
OneRunNext == Launch("runA") \/ RunStep("runA")

\* One pipeline run whose runner goes on while a step can be taken: the
\* processes it waits for end.
FairSpec == Init /\ [][OneRunNext]_vars /\ WF_vars(RunStep("runA"))

----------------------------------------------------------------------------
(* vara-buildsetup: main *)

\* No experiment is run.
PipelineOff ==
    /\ experiment = "TP"
    /\ target = [name |-> "phasar", version |-> "v1"]
    /\ fs = {}
    /\ dirs = {}
    /\ run = [r \in Runs |-> NoRun]
    /\ steps = [r \in Runs |-> <<>>]
    /\ ip = [r \in Runs |-> 1]
    /\ outcomes = [r \in Runs |-> <<>>]
    /\ phase = [r \in Runs |-> "idle"]
    /\ bi = [r \in Runs |-> 1]
    /\ procA = [r \in Runs |-> Off]
    /\ procB = [r \in Runs |-> Off]
    /\ raised = [r \in Runs |-> 0]
    /\ elapsed = [r \in Runs |-> 0]

\* A call of parse_string_to_build_type with any string
ParseInit ==
    /\ PipelineOff
    /\ args \in [config : {FALSE}, init : {FALSE}, update : {FALSE}, build : {FALSE},
                 buildtype : BuildTypeStrings]
    /\ pc = "call"
    /\ performed = <<>>
    /\ build_type = "none"

ParseCall ==
    /\ pc = "call"
    /\ build_type' = parse_string_to_build_type(args.buildtype)
    /\ pc' = "returned"
    /\ UNCHANGED <<pipeline, args, performed>>

ParseSpec == ParseInit /\ [][ParseCall]_vars

\* main after args = parser.parse_args()
MainInit ==
    /\ PipelineOff
    /\ args \in Namespaces
    /\ pc = "main"
    /\ performed = <<>>
    /\ build_type = "none"

\* if not (args.config or args.init or args.update or args.build):
\*     parser.error(...), which ends the program with status 2
main_parser_error ==
    /\ pc = "main"
    /\ ~(args.config \/ args.init \/ args.update \/ args.build)
    /\ pc' = "error"
    /\ UNCHANGED <<pipeline, args, performed, build_type>>

\* if args.config: save_config(); return
main_config ==
    /\ pc = "main"
    /\ args.config
    /\ performed' = Append(performed, "save_config")
    /\ pc' = "returned"
    /\ UNCHANGED <<pipeline, args, build_type>>

\* tool = VaRA(__get_source_location(args.sourcelocation))
main_tool ==
    /\ pc = "main"
    /\ args.init \/ args.update \/ args.build
    /\ ~args.config
    /\ pc' = "init"
    /\ UNCHANGED <<pipeline, args, performed, build_type>>

\* if args.init: __build_setup_init(...), which calls tool.setup
main_init ==
    /\ pc = "init"
    /\ performed' = IF args.init THEN Append(performed, "setup") ELSE performed
    /\ pc' = "update"
    /\ UNCHANGED <<pipeline, args, build_type>>

\* if args.update: tool.upgrade()
main_update ==
    /\ pc = "update"
    /\ performed' = IF args.update THEN Append(performed, "upgrade") ELSE performed
    /\ pc' = "build"
    /\ UNCHANGED <<pipeline, args, build_type>>

\* if args.build: build_type = parse_string_to_build_type(args.buildtype);
\* tool.build(...).  None has no upper(): the call raises AttributeError.
main_build ==
    /\ pc = "build"
    /\ IF ~args.build
       THEN pc' = "returned" /\ UNCHANGED <<performed, build_type>>
       ELSE IF args.buildtype = None
       THEN pc' = "raised" /\ UNCHANGED <<performed, build_type>>
       ELSE /\ build_type' = parse_string_to_build_type(args.buildtype)
            /\ performed' = Append(performed, "build")
            /\ pc' = "verify"
    /\ UNCHANGED <<pipeline, args>>

\* tool.verify_install(...), and the message of its result
main_verify ==
    /\ pc = "verify"
    /\ performed' = Append(performed, "verify_install")
    /\ pc' = "returned"
    /\ UNCHANGED <<pipeline, args, build_type>>

MainNext ==
    \/ main_parser_error
    \/ main_config
    \/ main_tool
    \/ main_init
    \/ main_update
    \/ main_build
    \/ main_verify

MainSpec == MainInit /\ [][MainNext]_vars

----------------------------------------------------------------------------
(* Properties *)

\* The run has been launched and has not taken a step: the disk is as
\* actions_for_project found it.
JustLaunched(r) ==
    /\ run[r] # NoRun
    /\ ip[r] = 1
    /\ phase[r] = "idle"

\* The place of the cached bitcode of a binary:
\* {cache_root}/{project_name}/{project_name}-{binary_name}-{version}.bc
CacheFile(project, binary_name) ==
    <<CFG_vara_result, "/", project.name, "/", project.name, "-", binary_name,
      "-", project.version, ".bc">>

Cached(r, i) == Exists(fs, CacheFile(run[r], Bins(r)[i]))

\* C1: the taint propagation pipeline is [VaraMTFACheck, Clean] when the
\* cache file of every binary of the project exists, and [Compile, Extract,
\* VaraMTFACheck, Clean] when at least one is missing, whichever are missing.
C1_CacheSkip ==
    \A r \in Runs :
        (experiment = "TP" /\ JustLaunched(r)) =>
            steps[r] = IF \A i \in 1..Len(Bins(r)) : Cached(r, i)
                       THEN <<"VaraMTFACheck", "Clean">>
                       ELSE <<"Compile", "Extract", "VaraMTFACheck", "Clean">>

\* A pipeline assembled with the first binaries missing and the last one cached.
C1_Witness ==
    \E r \in Runs :
        /\ experiment = "TP" /\ JustLaunched(r)
        /\ Len(Bins(r)) > 1
        /\ ~Cached(r, 1)
        /\ Cached(r, Len(Bins(r)))
        /\ steps[r] = <<"Compile", "Extract", "VaraMTFACheck", "Clean">>

\* C8: for every binary, the file whose existence actions_for_project tests
\* is the file analyze gives to opt; so when build and extract are skipped,
\* the input of the analysis of every binary exists.
C8_SameCachePath ==
    \A r \in Runs :
        (experiment = "TP" /\ run[r] # NoRun) =>
            \A i \in 1..Len(Bins(r)) :
                /\ Normalize(cache_check_path(run[r], Bins(r)[i]))
                       = Normalize(bc_input_path(run[r], Bins(r)[i]))
                /\ (JustLaunched(r) /\ steps[r] = <<"VaraMTFACheck", "Clean">>)
                       => Exists(fs, bc_input_path(run[r], Bins(r)[i]))

\* Build and extract were skipped and opt has read its input.
C8_Witness ==
    \E r \in Runs :
        /\ experiment = "TP"
        /\ steps[r] = <<"VaraMTFACheck", "Clean">>
        /\ phase[r] = "running"
        /\ bi[r] = Len(Bins(r))
        /\ Len(Bins(r)) > 1
        /\ procA[r] = 0

\* No other run has the identity (project, version, run id) of the run.
FreshIdentity(r) ==
    /\ run[r] # NoRun
    /\ \A q \in Runs \ {r} : run[q].run_uuid # run[r].run_uuid

\* The binary the analyze loop of the run is at.
Bin(r) == Bins(r)[bi[r]]

HasSuccess(disk, project, binary_name) == Exists(disk, result_path(project, binary_name))
HasFailed(disk, project, binary_name) == Exists(disk, error_path(project, binary_name))

\* The step in which the chain of the binary ends with success.
ChainSucceeds(r) == phase[r] = "running" /\ phase'[r] = "loop"

\* The step that ends the handling of a failed chain.
FailureHandled(r) == phase[r] = "except" /\ phase'[r] # "except"

\* C2: after the analysis of a binary only the outcome artifact of that run
\* is on disk: after a success no Failed report of the identity, after a
\* failure no Success file, whatever the run before left.
C2_MostRecentOutcome ==
    [][\A r \in Runs :
           /\ ChainSucceeds(r) =>
                  /\ HasSuccess(fs', run[r], Bin(r))
                  /\ ~HasFailed(fs', run[r], Bin(r))
           /\ FailureHandled(r) =>
                  /\ HasFailed(fs', run[r], Bin(r))
                  /\ ~HasSuccess(fs', run[r], Bin(r))]_vars

\* C3: when no outcome artifact of the identity was there before, a chain
\* that succeeded leaves the Success file and no Failed report, and a chain
\* that failed leaves the Failed report and no Success file.
C3_OutcomeArtifact ==
    [][\A r \in Runs :
           FreshIdentity(r) =>
               /\ ChainSucceeds(r) =>
                      /\ HasSuccess(fs', run[r], Bin(r))
                      /\ ~HasFailed(fs', run[r], Bin(r))
               /\ FailureHandled(r) =>
                      /\ HasFailed(fs', run[r], Bin(r))
                      /\ ~HasSuccess(fs', run[r], Bin(r))]_vars

\* The first binary failed and the second succeeded, in a run of its own identity.
C3_Witness ==
    \E r \in Runs :
        /\ FreshIdentity(r)
        /\ Len(Bins(r)) > 1
        /\ phase[r] = "loop" /\ bi[r] = 3
        /\ HasFailed(fs, run[r], Bins(r)[1]) /\ ~HasSuccess(fs, run[r], Bins(r)[1])
        /\ HasSuccess(fs, run[r], Bins(r)[2]) /\ ~HasFailed(fs, run[r], Bins(r)[2])

\* C4: when the first stage exits non-zero, FileCheck is not run and no
\* file is made at the output path.
C4_ShortCircuit ==
    \A r \in Runs :
        (FreshIdentity(r) /\ phase[r] = "running" /\ procA[r] > 0) =>
            /\ procB[r] = Off
            /\ ~HasSuccess(fs, run[r], Bin(r))

\* C6: once the timeout duration has passed, no stage of the chain runs.
C6_WholeChainBounded ==
    \A r \in Runs :
        elapsed[r] > TimeoutDuration => (procA[r] # Running /\ procB[r] # Running)

\* C7: the report of a chain that ran longer than the timeout says timeout,
\* the report of a chain that failed within the time says exit failure.
C7_TimeoutReported ==
    \A r \in Runs :
        (FreshIdentity(r) /\ phase[r] = "except") =>
            /\ elapsed[r] > TimeoutDuration =>
                   DataOf(fs, error_path(run[r], Bin(r))) = "timeout"
            /\ elapsed[r] < TimeoutDuration =>
                   DataOf(fs, error_path(run[r], Bin(r))) = "exit"

\* C10: no Success file of an identity is on disk while its chain has not
\* succeeded: not while the chain runs, not while its failure is handled.
C10_NoEarlySuccess ==
    \A r \in Runs :
        (FreshIdentity(r) /\ phase[r] \in {"running", "handler", "except"}) =>
            ~HasSuccess(fs, run[r], Bin(r))

\* The outcome of every step of the run is recorded, the last being Clean.
CleanRecorded(r) ==
    /\ Done(r)
    /\ Len(outcomes[r]) = Len(steps[r])
    /\ steps[r][Len(steps[r])] = "Clean"

\* C5: every pipeline run, whatever the outcomes of the steps before the
\* cleanup, executes the cleanup, records its outcome and reaches Done.
C5_CleanupAlways ==
    \A r \in Runs : (run[r] # NoRun) ~> CleanRecorded(r)

\* A run whose compile and extract steps failed has cleaned up.
C5_Witness ==
    \E r \in Runs :
        /\ CleanRecorded(r)
        /\ Len(steps[r]) > 2
        /\ outcomes[r][1] = "fail"
        /\ outcomes[r][2] = "fail"

\* The run takes a step.
Stepped(r) ==
    <<ip[r], phase[r], bi[r], procA[r], procB[r], raised[r]>>
        # <<ip'[r], phase'[r], bi'[r], procA'[r], procB'[r], raised'[r]>>

\* The names of the files a step makes, writes or removes.
ChangedPaths == {f.path : f \in (fs \ fs') \cup (fs' \ fs)}

\* The name is that of a Success file, a Failed report or a yaml result.
IsOutcomeArtifact(p) ==
    \E i \in 1..Len(p) : p[i] \in {FSE_Success, FSE_Failed, ".yaml"}

\* C9: every outcome artifact a run makes, overwrites or removes has the
\* run id of that run in its name, and the artifact names of two runs of
\* the same project, binary and version with different run ids differ.
C9_RunIdInArtifacts ==
    [][\A r \in Runs :
           /\ Stepped(r) =>
                  \A p \in ChangedPaths :
                      IsOutcomeArtifact(p) => \E i \in 1..Len(p) : p[i] = run[r].run_uuid
           /\ \A q \in Runs :
                  (run[r] # NoRun /\ run[q] # NoRun
                       /\ run[r].run_uuid # run[q].run_uuid) =>
                      /\ \A i \in 1..Len(Bins(r)) :
                             {Normalize(result_path(run[r], Bins(r)[i])),
                              Normalize(error_path(run[r], Bins(r)[i]))}
                                 \cap {Normalize(result_path(run[q], Bins(q)[i])),
                                       Normalize(error_path(run[q], Bins(q)[i]))} = {}
                      /\ Normalize(car_outfile(run[r])) # Normalize(car_outfile(run[q]))]_vars

\* Two runs with different run ids are in their analysis at the same time,
\* one with a Failed report on disk, the other with a Success file.
C9_Witness ==
    /\ experiment = "TP"
    /\ run["runA"].run_uuid # run["runB"].run_uuid
    /\ phase["runA"] # "idle" /\ phase["runB"] # "idle"
    /\ bi["runA"] > 1 /\ bi["runB"] > 1
    /\ HasFailed(fs, run["runA"], Bins("runA")[1])
    /\ HasSuccess(fs, run["runB"], Bins("runB")[1])

\* The build type named by a string: that of the word the string is a
\* casing of, DEV when it is a casing of none.
NamedBuildType(str) ==
    IF str \in Casings(dbg) THEN "DBG"
    ELSE IF str \in Casings(dev) THEN "DEV"
    ELSE IF str \in Casings(opt) THEN "OPT"
    ELSE IF str \in Casings(pgo) THEN "PGO"
    ELSE IF str \in Casings(dev_san) THEN "DEV_SAN"
    ELSE "DEV"

\* C11: parse_string_to_build_type returns DBG, DEV, OPT, PGO, DEV_SAN for
\* every casing of "dbg", "dev", "opt", "pgo", "dev-san", and DEV for every
\* other string; every call returns a build type.
C11_CaseInsensitive ==
    /\ pc = "call" => ENABLED ParseCall
    /\ pc = "returned" =>
           /\ build_type \in BuildType
           /\ build_type = NamedBuildType(args.buildtype)

\* The call with "dEv-SaN" has returned DEV_SAN.
C11_Witness ==
    /\ pc = "returned"
    /\ args.buildtype = <<"d", "E", "v", "-", "S", "a", "N">>
    /\ build_type = "DEV_SAN"

\* The first step of the run was Compile and it failed.
CompileFailed(r) ==
    /\ experiment = "TP"
    /\ run[r] # NoRun
    /\ steps[r] # <<>> /\ steps[r][1] = "Compile"
    /\ outcomes[r] # <<>> /\ outcomes[r][1] = "fail"

\* The report of kind CompileError of the identity (project, "all", version, run id)
CompileErrorReport(project) ==
    <<CFG_vara_outfile, "/", project.name, "/", "all", "-", project.version, "-",
      project.run_uuid, ".", FSE_CompileError>>

\* The step launches the run.
Launched(r) == run[r] = NoRun /\ run'[r] # NoRun

\* C12: when the compile step of a taint propagation run has failed, the
\* CompileError report of (project, "all", version, run id) is on disk, the
\* steps of that run leave a cache file of the project missing, and the
\* pipeline assembled next has Compile and Extract again.
C12_CompileErrorRetry ==
    [][\A r \in Runs :
           CompileFailed(r)' =>
               /\ Exists(fs', CompileErrorReport(run[r]'))
               /\ Stepped(r) => \E i \in 1..Len(Bins(r)') : ~Cached(r, i)'
               /\ \A q \in Runs \ {r} :
                      Launched(q) =>
                          steps'[q] = <<"Compile", "Extract", "VaraMTFACheck", "Clean">>]_vars

\* After a run whose compile step failed, the next run is assembled with
\* Compile and Extract, the CompileError report of the first run on disk.
C12_Witness ==
    /\ CompileFailed("runA")
    /\ Done("runA")
    /\ JustLaunched("runB")
    /\ Len(Bins("runB")) > 1
    /\ run["runB"].run_uuid # run["runA"].run_uuid
    /\ Exists(fs, CompileErrorReport(run["runA"]))
    /\ steps["runB"] = <<"Compile", "Extract", "VaraMTFACheck", "Clean">>

\* The index of the step of that kind in the pipeline of the run, 0 if none
StepIndex(r, kind) ==
    IF \E k \in 1..Len(steps[r]) : steps[r][k] = kind
    THEN CHOOSE k \in 1..Len(steps[r]) : steps[r][k] = kind
    ELSE 0

\* The run was assembled with Compile and Extract, and both succeeded.
BuiltAndExtracted(r) ==
    /\ Done(r)
    /\ StepIndex(r, "Compile") > 0 /\ StepIndex(r, "Extract") > 0
    /\ outcomes[r][StepIndex(r, "Compile")] = "ok"
    /\ outcomes[r][StepIndex(r, "Extract")] = "ok"

\* C13: after a run with successful Compile and Extract steps, the pipeline
\* assembled next for the same project and version is the short one, without
\* Compile and Extract, whatever the analysis of the first run did.
C13_CacheEffective ==
    [][\A r, q \in Runs :
           (r # q /\ BuiltAndExtracted(r) /\ Launched(q)) =>
               steps'[q] = IF experiment = "TP" THEN <<"VaraMTFACheck", "Clean">>
                           ELSE <<"Analyse", "Clean">>]_vars

\* The first run built and extracted and its analysis of the first binary
\* failed; the next run is assembled without Compile and Extract.
C13_Witness ==
    /\ experiment = "TP"
    /\ BuiltAndExtracted("runA")
    /\ HasFailed(fs, run["runA"], Bins("runA")[1])
    /\ run["runB"].run_uuid # run["runA"].run_uuid
    /\ JustLaunched("runB")
    /\ steps["runB"] = <<"VaraMTFACheck", "Clean">>

\* The cached bitcode the run's pipeline is assembled for: one file for each
\* binary in the taint propagation experiment, one for the project in the
\* commit annotation experiment.
CachedBitcode(r) ==
    IF experiment = "TP"
    THEN {Normalize(CacheFile(run[r], Bins(r)[i])) : i \in 1..Len(Bins(r))}
    ELSE {Normalize(<<CFG_vara_result, "/", run[r].name, ".bc">>)}

\* C14: build and extract are skipped for a project at a version only if
\* the cached bitcode made from that version of the project exists; bitcode
\* made from another version does not cause the skip.
C14_VersionKeyed ==
    \A r \in Runs :
        (JustLaunched(r) /\ StepIndex(r, "Compile") = 0) =>
            \A p \in CachedBitcode(r) :
                \E f \in fs : f.path = p /\ f.data = run[r].version

\* C14 for the taint propagation experiment alone
TP_VersionKeyed == experiment = "TP" => C14_VersionKeyed

\* The step in which the run leaves the chain of a binary for good: the
\* chain succeeded, or the except clause has ended.
ChainLeft(r) ==
    /\ phase[r] \in {"running", "except"}
    /\ phase'[r] \notin {"running", "handler", "except"}

\* The step in which analyze ends, by a return or by an error.
AnalyzeLeft(r) == AtStep(r, "VaraMTFACheck") /\ ip'[r] # ip[r]

\* C15: analyze takes the binaries of BIN_NAMES one by one, in list order,
\* each once: the chain of a binary, failed or not, is followed by the next
\* binary, analyze ends only after the last one, without an error, and then
\* every binary has an outcome artifact.
C15_EveryBinaryAnalysed ==
    [][\A r \in Runs :
           (experiment = "TP" /\ run[r] # NoRun) =>
               /\ (phase[r] = "loop" /\ phase'[r] = "running") =>
                      (bi[r] \in 1..Len(Bins(r)) /\ bi'[r] = bi[r])
               /\ ChainLeft(r) => (phase'[r] = "loop" /\ bi'[r] = bi[r] + 1)
               /\ bi'[r] # bi[r] => (ChainLeft(r) /\ bi'[r] = bi[r] + 1)
               /\ AnalyzeLeft(r) =>
                      /\ bi[r] = Len(Bins(r)) + 1
                      /\ outcomes'[r][ip[r]] = "ok"
                      /\ \A i \in 1..Len(Bins(r)) :
                             \/ HasSuccess(fs', run[r], Bins(r)[i])
                             \/ HasFailed(fs', run[r], Bins(r)[i])]_vars

\* analyze has returned: the chain of the first binary failed, the chain of
\* the second binary was run after it and succeeded.
C15_Witness ==
    \E r \in Runs :
        /\ experiment = "TP" /\ FreshIdentity(r)
        /\ Len(Bins(r)) > 1
        /\ AtStep(r, "Clean")
        /\ outcomes[r][StepIndex(r, "VaraMTFACheck")] = "ok"
        /\ HasFailed(fs, run[r], Bins(r)[1]) /\ ~HasSuccess(fs, run[r], Bins(r)[1])
        /\ HasSuccess(fs, run[r], Bins(r)[2])

\* C16: the commit annotation pipeline is [Prepare, Compile, Extract,
\* Analyse, Clean] when <result dir>/<project name>.bc does not exist and
\* [Analyse, Clean] when it exists.
C16_CARPipeline ==
    \A r \in Runs :
        (experiment = "CAR" /\ JustLaunched(r)) =>
            steps[r] = IF Exists(fs, <<CFG_vara_result, "/", run[r].name, ".bc">>)
                       THEN <<"Analyse", "Clean">>
                       ELSE <<"Prepare", "Compile", "Extract", "Analyse", "Clean">>

\* The first run was assembled with all five steps and made the bitcode, the
\* run after it is assembled with Analyse and Clean.
C16_Witness ==
    /\ experiment = "CAR"
    /\ steps["runA"] = <<"Prepare", "Compile", "Extract", "Analyse", "Clean">>
    /\ JustLaunched("runB")
    /\ steps["runB"] = <<"Analyse", "Clean">>

\* C17 as stated: whether Compile and Extract are in the taint propagation
\* pipeline depends on the cache file of the last binary of BIN_NAMES alone.
C17_LastBinaryDecides ==
    \A r \in Runs :
        (experiment = "TP" /\ JustLaunched(r)) =>
            (StepIndex(r, "Compile") > 0 <=> ~Cached(r, Len(Bins(r))))

\* C17: whether Compile and Extract are in the taint propagation pipeline
\* depends on the cache file of every binary of BIN_NAMES: they are in it,
\* as its first two steps, exactly when the cache file of some binary, at
\* whatever position, is missing.
C17_AnyBinaryDecides ==
    \A r \in Runs :
        (experiment = "TP" /\ JustLaunched(r)) =>
            /\ StepIndex(r, "Compile") > 0 <=> \E i \in 1..Len(Bins(r)) : ~Cached(r, i)
            /\ StepIndex(r, "Compile") > 0 =>
                   (StepIndex(r, "Compile") = 1 /\ StepIndex(r, "Extract") = 2)

\* The cache file of the last binary is there, that of a binary before it
\* is not, and Compile and Extract are in the pipeline.
C17_Witness ==
    \E r \in Runs :
        /\ experiment = "TP" /\ JustLaunched(r)
        /\ Cached(r, Len(Bins(r)))
        /\ \E i \in 1..(Len(Bins(r)) - 1) : ~Cached(r, i)
        /\ StepIndex(r, "Compile") = 1 /\ StepIndex(r, "Extract") = 2

\* The calls the flags select: nothing without a flag, save_config alone
\* with --config, else setup, upgrade, build and verify_install, in this
\* order, as selected by --init, --update and --build.
SelectedActions(a) ==
    IF ~(a.config \/ a.init \/ a.update \/ a.build) THEN <<>>
    ELSE IF a.config THEN <<"save_config">>
    ELSE (IF a.init THEN <<"setup">> ELSE <<>>)
             \o (IF a.update THEN <<"upgrade">> ELSE <<>>)
             \o (IF a.build THEN <<"build", "verify_install">> ELSE <<>>)

IsPrefix(p, q) == Len(p) <= Len(q) /\ SubSeq(q, 1, Len(p)) = p

\* main has ended: by a return, by parser.error or by an exception.
MainEnded == pc \in {"returned", "error", "raised"}

\* C18: main performs the calls its flags select, in the fixed order, each
\* at most once: what it has performed is always a prefix of them, and all
\* of them when it has ended; without a flag it ends with an error.
C18_FlagsDecide ==
    /\ IsPrefix(performed, SelectedActions(args))
    /\ MainEnded => performed = SelectedActions(args)
    /\ pc = "error" <=> (MainEnded /\ ~(args.config \/ args.init \/ args.update \/ args.build))

\* C18 for the command lines on which --buildtype has a value
FlagsDecideWithBuildType == args.buildtype # None => C18_FlagsDecide

====
